---- MODULE Spec2Model ----
(***************************************************************************)
(* Multiple Correspondence Analysis engine (src/src/mca.py): the MCA       *)
(* object's attributes, its constructor options and its public and         *)
(* internal methods.                                                       *)
(*                                                                         *)
(* Numbers.  Reals are exact rationals <<num, den>> with den > 0.  A       *)
(* singular value is an integer a standing for a / SDen, 0 <= a < SDen     *)
(* (singular values of a standardized residual matrix lie in [0, 1]).      *)
(* Matrices.  A table is the record [n, J, s]: n observations, J columns   *)
(* of the coded matrix X, and s the singular values of X's standardized    *)
(* residual matrix in descending order.  r, c, D_r, D_c, P and Q are       *)
(* functions of the table and are held as the table they were computed     *)
(* from plus their shape.  A factor-score matrix D_r.P.S (resp.            *)
(* D_c.Q^T.S) is held as the tables of its factors and the diagonal of S.  *)
(* self.dr and self.dc are written by cos_r and cos_c and read only in     *)
(* the statement that follows, so they are values of the call, not state.  *)
(***************************************************************************)
EXTENDS Integers, Sequences, FiniteSets, TLC

\* ---------------------------------------------------------------- bounds
MaxDim == 3
MaxFits == 2

\* ------------------------------------------------------- python values
NoneV == [t |-> "None", v |-> 0]
IntV(i) == [t |-> "int", v |-> i]
FloatV == [t |-> "float", v |-> 1]

IsInt(x) == x.t = "int"
Truthy(x) == x.t # "None" /\ ~(x.t = "int" /\ x.v = 0)

Min(a, b) == IF a <= b THEN a ELSE b

\* ----------------------------------------------------------- rationals
RLess(a, b) == a[1] * b[2] < b[1] * a[2]
RGeq(a, b) == ~RLess(a, b)
Abs(a) == IF a < 0 THEN -a ELSE a
RECURSIVE GCD(_, _)
GCD(a, b) == IF b = 0 THEN a ELSE GCD(b, a % b)
\* lowest terms
Reduced(a) ==
    LET g == GCD(Abs(a[1]), a[2]) IN <<a[1] \div g, a[2] \div g>>
RAdd(a, b) == Reduced(<<a[1] * b[2] + b[1] * a[2], a[2] * b[2]>>)
RMul(a, b) == Reduced(<<a[1] * b[1], a[2] * b[2]>>)
RZero == <<0, 1>>

RECURSIVE RSumTo(_, _)
RSumTo(v, i) == IF i = 0 THEN RZero ELSE RAdd(RSumTo(v, i - 1), v[i])
RSum(v) == RSumTo(v, Len(v))

\* v[:N] for N = None or a non-negative integer
Slice(v, N) == IF N.t = "None" THEN v ELSE SubSeq(v, 1, Min(N.v, Len(v)))

\* --------------------------------------------------------------- tables
Dims == (MaxDim - 1)..MaxDim
Rows == MaxDim + 1
SDen == MaxDim + 1

\* A table of Rows observations and J coded columns whose residual matrix
\* has q non-zero singular values MaxDim/SDen > (MaxDim-1)/SDen > ...
\* The residual matrix D_r (Z - r c^T) D_c annihilates sqrt(c) on the right
\* and sqrt(r) on the left, so its smallest singular value is 0 (q < J).
Table(J, q) ==
    [n |-> Rows, J |-> J, s |-> [i \in 1..J |-> IF i <= q THEN MaxDim + 1 - i ELSE 0]]

Tables == UNION {{Table(J, q) : q \in 0..(J - 1)} : J \in Dims}

NoTable == [n |-> 0, J |-> 0, s |-> <<>>]

\* ---------------------------------------------------- constructor options
\* cols is the number of columns named (0: None or empty); n_cols is read
\* by process_df only when cols is not given and by svds only when sparse
ColsValues == {0, 2}
NColsValues == {NoneV, FloatV} \cup {IntV(i) : i \in 0..(MaxDim + 1)}
TolDefault == <<1, 10000>>

\* with cols given process_df never reads n_cols: one valid and one invalid
\* value stand for all of them
Configs ==
    {cfg \in [cols : ColsValues, n_cols : NColsValues, benzecri : BOOLEAN,
              tol : {TolDefault}, sparse : BOOLEAN] :
        cfg.cols # 0 => cfg.n_cols \in {NoneV, IntV(0)}}

NoMatrix == [has |-> FALSE, D |-> NoTable, V |-> NoTable, S |-> <<>>]

\* MCA.__init__: the options are stored, nothing else exists yet
New(cfg) ==
    [cols |-> cfg.cols, n_cols |-> cfg.n_cols, benzecri |-> cfg.benzecri,
     tol |-> cfg.tol, sparse |-> cfg.sparse,
     K |-> 0, J |-> 0, r |-> NoTable, c |-> NoTable, D_r |-> NoTable, D_c |-> NoTable,
     P |-> [X |-> NoTable, cols |-> 0], Q |-> [X |-> NoTable, rows |-> 0],
     s |-> <<>>, numitems |-> 0, E |-> <<>>, inertia |-> RZero,
     rank |-> 0, L |-> <<>>, k |-> 0,
     F |-> NoMatrix, G |-> NoMatrix]

\* the attributes _fit assigns last exist
Fitted(self) == self.rank > 0

\* ------------------------------------------------------------ process_df
\* variant without the upper bound ncols > len(DF.columns)
process_df_unbounded(DF, cols, ncols) ==
    IF cols # 0
    THEN [err |-> "", K |-> cols, J |-> DF.J]
    ELSE IF ncols.t = "None"
         THEN [err |-> "", K |-> DF.J, J |-> DF.J]
         ELSE IF ~IsInt(ncols) \/ ncols.v <= 0
              THEN [err |-> "ValueError", K |-> 0, J |-> 0]
              ELSE [err |-> "", K |-> ncols.v, J |-> DF.J]

\* DF is the coded matrix itself when cols is not given: len(DF.columns) = J
process_df(DF, cols, ncols) ==
    IF cols # 0
    THEN [err |-> "", K |-> cols, J |-> DF.J]
    ELSE IF ncols.t = "None"
         THEN [err |-> "", K |-> DF.J, J |-> DF.J]
         ELSE IF ~IsInt(ncols) \/ ncols.v <= 0 \/ ncols.v > DF.J
              THEN [err |-> "ValueError", K |-> 0, J |-> 0]
              ELSE [err |-> "", K |-> ncols.v, J |-> DF.J]

\* ------------------------------------------------ eigenvalue corrections
Sq(a) == Reduced(<<a * a, SDen * SDen>>)
Squares(s) == [i \in 1..Len(s) |-> Sq(s[i])]

\* (K/(K-1.) * (x - 1./K))**2 if x > 1./K else 0, for x = a^2 / SDen^2.
\* The quotient K/(K-1.) is only evaluated when x > 1/K, which for K = 1
\* needs x > 1 and no singular value exceeds 1.
BenzecriValue(K, a) ==
    IF K * a * a > SDen * SDen
    THEN LET x == Reduced(<<K * a * a - SDen * SDen, SDen * SDen * (K - 1)>>)
         IN RMul(x, x)
    ELSE RZero

\* MCA._apply_benzecri_correction: computes self.E once per fit
apply_benzecri_correction(self) ==
    IF self.E = <<>>
    THEN [self EXCEPT !.E = [i \in 1..Len(self.s) |-> BenzecriValue(self.K, self.s[i])]]
    ELSE self

\* numpy.argmax(E < tol): index of the first True, 0 when there is none
RECURSIVE FirstBelow(_, _, _)
FirstBelow(E, tol, i) ==
    IF i > Len(E) THEN 0
    ELSE IF RLess(E[i], tol) THEN i - 1
    ELSE FirstBelow(E, tol, i + 1)
argmax_below(E, tol) == FirstBelow(E, tol, 1)

\* lines 102-103: rank = argmax(E < tol); if not rank: rank = len(E)
rank_of(E, tol) ==
    IF argmax_below(E, tol) = 0 THEN Len(E) ELSE argmax_below(E, tol)

\* --------------------------------------------------------------- MCA._fit
\* scipy.sparse.linalg.svds(A, k) requires an integer 0 < k < min(A.shape)
svds_k(self, DF) ==
    IF self.n_cols.t = "None" THEN IntV(Min(DF.n, DF.J) - 1) ELSE self.n_cols
svds_ok(kk, DF) == IsInt(kk) /\ 0 < kk.v /\ kk.v < Min(DF.n, DF.J)

\* lines 76-84: K, J, the masses and the diagonal scalings of table DF
fit_masses(self, DF, pd) ==
    [self EXCEPT !.K = pd.K, !.J = pd.J, !.r = DF, !.c = DF, !.D_r = DF, !.D_c = DF]

\* lines 88-97: the decomposition, dense or truncated
fit_svd(self, DF) ==
    IF self.sparse
    THEN [self EXCEPT !.P = [X |-> DF, cols |-> svds_k(self, DF).v],
                      !.Q = [X |-> DF, rows |-> svds_k(self, DF).v],
                      !.s = SubSeq(DF.s, 1, svds_k(self, DF).v),
                      !.numitems = Min(DF.n, DF.J) - 1]
    ELSE [self EXCEPT !.P = [X |-> DF, cols |-> DF.n],
                      !.Q = [X |-> DF, rows |-> DF.J],
                      !.s = DF.s,
                      !.numitems = DF.n]

\* lines 99-104: eigenvalues, inertia, rank and L
fit_rank(self) ==
    LET s0 == [self EXCEPT !.E = <<>>]
        s1 == IF self.benzecri THEN apply_benzecri_correction(s0) ELSE s0
        E == IF self.benzecri THEN s1.E ELSE Squares(self.s)
    IN [s1 EXCEPT !.inertia = RSum(E),
                  !.rank = rank_of(E, self.tol),
                  !.L = SubSeq(E, 1, rank_of(E, self.tol))]

\* _fit as a whole: the engine it leaves behind and the error it raises
fit_(self, DF) ==
    LET pd == process_df(DF, self.cols, self.n_cols) IN
    IF pd.err # ""
    THEN [self |-> self, err |-> pd.err]
    ELSE IF self.sparse /\ ~svds_ok(svds_k(self, DF), DF)
         THEN [self |-> fit_masses(self, DF, pd), err |-> "ValueError"]
         ELSE [self |-> fit_rank(fit_svd(fit_masses(self, DF, pd), DF)), err |-> ""]

\* ------------------------------------------------- factor-score calculator
PercentDefault == <<9, 10>>
bad_percent(percent) == ~(RGeq(percent, RZero) /\ RGeq(<<1, 1>>, percent))

\* lines 125 and 151: not isinstance(N, (int, int64)) or N <= 0
bad_N(N) == ~IsInt(N) \/ N.v <= 0

\* variant with a strict comparison
reaches_strictly(L, i, percent) == RLess(RMul(RSum(L), percent), RSumTo(L, i))

\* numpy.cumsum(L)[i-1] >= sum(L) * percent
reaches(L, i, percent) == RGeq(RSumTo(L, i), RMul(RSum(L), percent))

\* flatnonzero(cumsum(L) >= sum(L)*percent)[0]: the first index (from 0)
\* that reaches the threshold; -1 stands for the IndexError of an empty result
RECURSIVE FirstReach(_, _, _)
FirstReach(L, percent, i) ==
    IF i > Len(L) THEN -1
    ELSE IF reaches(L, i, percent) THEN i - 1
    ELSE FirstReach(L, percent, i + 1)

\* lines 128 and 156: self.k = 1 + flatnonzero(...)[0]
calc_k(L, percent) == 1 + FirstReach(L, percent, 1)

\* lines 133 and 161: s = -sqrt(self.L) if self.benzecri else self.s
NegSqrt(x) == [f |-> "negsqrt", x |-> x]
Plain(a) == [f |-> "s", x |-> Reduced(<<a, SDen>>)]
scaling(self) ==
    IF self.benzecri
    THEN [i \in 1..Len(self.L) |-> NegSqrt(self.L[i])]
    ELSE [i \in 1..Len(self.s) |-> Plain(self.s[i])]

\* scipy.linalg.diagsvd(s, M, N) builds an M x N matrix when len(s) is M
\* (and N >= M) or N (and M >= N), and raises ValueError otherwise
diagsvd_ok(len, M, N) == (len = M /\ N >= M) \/ (len = N /\ M >= N)

\* lines 124-127 and 150-153: validation of percent and N, and the clamp
checked_N(self, percent, N) ==
    IF bad_percent(percent) THEN [err |-> "ValueError", N |-> N]
    ELSE IF Truthy(N)
         THEN IF bad_N(N) THEN [err |-> "ValueError", N |-> N]
              ELSE [err |-> "", N |-> IntV(Min(N.v, self.rank))]
         ELSE [err |-> "", N |-> N]

\* line 132 and 160: num2ret = N if N else self.k
num2ret(N, k) == IF Truthy(N) THEN N.v ELSE k

\* MCA._calc_row_factor_scores
calc_row_factor_scores(self, percent, N) ==
    LET chk == checked_N(self, percent, N) IN
    IF chk.err # "" THEN [self |-> self, err |-> chk.err]
    ELSE IF ~Fitted(self) THEN [self |-> self, err |-> "AttributeError"]
    ELSE IF calc_k(self.L, percent) = 0 THEN [self |-> self, err |-> "IndexError"]
    ELSE
      LET s1 == [self EXCEPT !.k = calc_k(self.L, percent)]
          n2r == num2ret(chk.N, s1.k)
          sc == SubSeq(scaling(s1), 1, Min(n2r, Len(scaling(s1))))
      IN IF ~diagsvd_ok(Len(sc), s1.numitems, n2r)
         THEN [self |-> s1, err |-> "ValueError"]
         ELSE IF s1.D_r.n # s1.P.X.n \/ s1.P.cols # s1.numitems
              THEN [self |-> s1, err |-> "ValueError"]
              ELSE [self |-> [s1 EXCEPT !.F = [has |-> TRUE, D |-> s1.D_r,
                                                V |-> s1.P.X, S |-> sc]],
                    err |-> ""]

\* variant that drops the cached row scores when it stores the column scores
calc_col_factor_scores_dropping_F(self, percent, N) ==
    LET chk == checked_N(self, percent, N) IN
    IF chk.err # "" THEN [self |-> self, err |-> chk.err]
    ELSE IF ~Fitted(self) THEN [self |-> self, err |-> "AttributeError"]
    ELSE IF calc_k(self.L, percent) = 0 THEN [self |-> self, err |-> "IndexError"]
    ELSE
      LET s1 == [self EXCEPT !.k = calc_k(self.L, percent)]
          n2r == num2ret(chk.N, s1.k)
          sc == SubSeq(scaling(s1), 1, Min(n2r, Len(scaling(s1))))
      IN IF ~diagsvd_ok(Len(sc), s1.Q.rows, n2r)
         THEN [self |-> s1, err |-> "ValueError"]
         ELSE IF s1.D_c.J # s1.Q.X.J
              THEN [self |-> s1, err |-> "ValueError"]
              ELSE [self |-> [s1 EXCEPT !.F = NoMatrix,
                                        !.G = [has |-> TRUE, D |-> s1.D_c,
                                                V |-> s1.Q.X, S |-> sc]],
                    err |-> ""]

\* MCA._calc_col_factor_scores
calc_col_factor_scores(self, percent, N) ==
    LET chk == checked_N(self, percent, N) IN
    IF chk.err # "" THEN [self |-> self, err |-> chk.err]
    ELSE IF ~Fitted(self) THEN [self |-> self, err |-> "AttributeError"]
    ELSE IF calc_k(self.L, percent) = 0 THEN [self |-> self, err |-> "IndexError"]
    ELSE
      LET s1 == [self EXCEPT !.k = calc_k(self.L, percent)]
          n2r == num2ret(chk.N, s1.k)
          sc == SubSeq(scaling(s1), 1, Min(n2r, Len(scaling(s1))))
      IN IF ~diagsvd_ok(Len(sc), s1.Q.rows, n2r)
         THEN [self |-> s1, err |-> "ValueError"]
         ELSE IF s1.D_c.J # s1.Q.X.J
              THEN [self |-> s1, err |-> "ValueError"]
              ELSE [self |-> [s1 EXCEPT !.G = [has |-> TRUE, D |-> s1.D_c,
                                                V |-> s1.Q.X, S |-> sc]],
                    err |-> ""]

\* number of columns of a cached score matrix (F.shape[1], len(G.T))
Width(M) == Len(M.S)

\* ------------------------------------------------------------ diagnostics
NoVal == [kind |-> "none"]
Raise(self, err) == [self |-> self, err |-> err, val |-> NoVal]
Return(self, val) == [self |-> self, err |-> "", val |-> val]

\* numpy broadcasting of two vectors of lengths a and b
broadcasts(a, b) == a = b \/ a = 1 \/ b = 1

\* MCA.cos_r
cos_r(self, N) ==
    LET c1 == IF ~self.F.has \/ Width(self.F) < self.rank
              THEN calc_row_factor_scores(self, PercentDefault, IntV(self.rank))
              ELSE [self |-> self, err |-> ""]
    IN IF c1.err # "" THEN Raise(c1.self, c1.err)
       ELSE LET s1 == c1.self
                dr == s1.F.S
            IN Return(s1, [kind |-> "cos", D |-> s1.F.D, V |-> s1.F.V,
                           num |-> Slice(s1.F.S, N), norm |-> dr])

\* MCA.cos_c
cos_c(self, N) ==
    LET c1 == IF ~self.G.has \/ Width(self.G) < self.rank
              THEN calc_col_factor_scores(self, PercentDefault, IntV(self.rank))
              ELSE [self |-> self, err |-> ""]
    IN IF c1.err # "" THEN Raise(c1.self, c1.err)
       ELSE LET s1 == c1.self
                dc == s1.G.S
            IN Return(s1, [kind |-> "cos", D |-> s1.G.D, V |-> s1.G.V,
                           num |-> Slice(s1.G.S, N), norm |-> dc])

\* MCA.cont_r: (F[:, :N]**2 * r) / L[:N]
cont_r(self, N) ==
    LET c1 == IF ~self.F.has
              THEN calc_row_factor_scores(self, PercentDefault, IntV(self.rank))
              ELSE [self |-> self, err |-> ""]
    IN IF c1.err # "" THEN Raise(c1.self, c1.err)
       ELSE LET s1 == c1.self
                num == Slice(s1.F.S, N)
                den == Slice(s1.L, N)
            IN IF s1.F.D.n # s1.r.n \/ ~broadcasts(Len(num), Len(den))
               THEN Raise(s1, "ValueError")
               ELSE Return(s1, [kind |-> "cont", D |-> s1.F.D, V |-> s1.F.V, num |-> num,
                                mass |-> s1.r, L |-> den])

\* MCA.cont_c: (G[:, :N]**2 * c) / L[:N]
cont_c(self, N) ==
    LET c1 == IF ~self.G.has
              THEN calc_col_factor_scores(self, PercentDefault, IntV(self.rank))
              ELSE [self |-> self, err |-> ""]
    IN IF c1.err # "" THEN Raise(c1.self, c1.err)
       ELSE LET s1 == c1.self
                num == Slice(s1.G.S, N)
                den == Slice(s1.L, N)
            IN IF s1.G.D.J # s1.c.J \/ ~broadcasts(Len(num), Len(den))
               THEN Raise(s1, "ValueError")
               ELSE Return(s1, [kind |-> "cont", D |-> s1.G.D, V |-> s1.G.V, num |-> num,
                                mass |-> s1.c, L |-> den])

\* sum(self.s**4) as a rational
RECURSIVE SumFourth(_, _)
SumFourth(s, i) ==
    IF i = 0 THEN 0 ELSE SumFourth(s, i - 1) + s[i] * s[i] * s[i] * s[i]

\* K/(K-1.) * (sum(s**4) - (J-K)/K**2.)
greenacre_inertia(self) ==
    RMul(<<self.K, self.K - 1>>,
         RAdd(Reduced(<<SumFourth(self.s, Len(self.s)), SDen * SDen * SDen * SDen>>),
              <<self.K - self.J, self.K * self.K>>))

\* MCA.expl_var
expl_var(self, greenacre, N) ==
    IF self.K = 0 THEN Raise(self, "AttributeError")
    ELSE IF greenacre
    THEN IF self.K = 1 THEN Raise(self, "ZeroDivisionError")
         ELSE IF ~Fitted(self) THEN Raise(self, "AttributeError")
         ELSE LET s1 == apply_benzecri_correction(self)
              IN Return(s1, [kind |-> "expl", num |-> Slice(s1.E, N),
                             den |-> greenacre_inertia(s1)])
    ELSE IF ~Fitted(self) THEN Raise(self, "AttributeError")
         ELSE LET s1 == IF self.benzecri THEN apply_benzecri_correction(self) ELSE self
                  E == IF self.benzecri THEN s1.E ELSE Squares(self.s)
              IN Return(s1, [kind |-> "expl", num |-> Slice(E, N), den |-> RSum(E)])

\* lines 227 and 244: s = -sqrt(self.E) if self.benzecri else self.s
sup_scaling(self) ==
    IF self.benzecri
    THEN [i \in 1..Len(self.E) |-> NegSqrt(self.E[i])]
    ELSE [i \in 1..Len(self.s) |-> Plain(self.s[i])]

\* lines 225 and 242: N and (not isinstance(N, int) or N <= 0)
bad_sup_N(N) == Truthy(N) /\ bad_N(N)

\* MCA.fs_r_sup
fs_r_sup(self, DF, N) ==
    LET c1 == IF ~self.G.has
              THEN calc_col_factor_scores(self, PercentDefault, IntV(self.rank))
              ELSE [self |-> self, err |-> ""]
    IN IF c1.err # "" THEN Raise(c1.self, c1.err)
       ELSE IF bad_sup_N(N) THEN Raise(c1.self, "ValueError")
       ELSE LET s1 == c1.self
                n == IF Truthy(N) THEN Min(N.v, s1.rank) ELSE s1.rank
                sinv == SubSeq(sup_scaling(s1), 1, Min(n, Len(sup_scaling(s1))))
            IN IF ~diagsvd_ok(Len(sinv), Width(s1.G), n) \/ DF.J # s1.G.D.J
               THEN Raise(s1, "ValueError")
               ELSE Return(s1, [kind |-> "sup", DF |-> DF, D |-> s1.G.D, V |-> s1.G.V,
                                cols |-> SubSeq(s1.G.S, 1, n), inv |-> sinv])

\* MCA.fs_c_sup
fs_c_sup(self, DF, N) ==
    LET c1 == IF ~self.F.has
              THEN calc_row_factor_scores(self, PercentDefault, IntV(self.rank))
              ELSE [self |-> self, err |-> ""]
    IN IF c1.err # "" THEN Raise(c1.self, c1.err)
       ELSE IF bad_sup_N(N) THEN Raise(c1.self, "ValueError")
       ELSE LET s1 == c1.self
                n == IF Truthy(N) THEN Min(N.v, s1.rank) ELSE s1.rank
                sinv == SubSeq(sup_scaling(s1), 1, Min(n, Len(sup_scaling(s1))))
            IN IF ~diagsvd_ok(Len(sinv), Width(s1.F), n) \/ DF.n # s1.F.D.n
               THEN Raise(s1, "ValueError")
               ELSE Return(s1, [kind |-> "sup", DF |-> DF, D |-> s1.F.D, V |-> s1.F.V,
                                cols |-> SubSeq(s1.F.S, 1, n), inv |-> sinv])

\* MCA.fit returns the engine itself
fit(self, DF) ==
    LET f == fit_(self, DF) IN
    IF f.err # "" THEN Raise(f.self, f.err) ELSE Return(f.self, [kind |-> "self"])

Scores(M) == [kind |-> "scores", D |-> M.D, V |-> M.V, S |-> M.S]

\* MCA.fit_transform
fit_transform(self, DF, percent, N, col_factor_scores) ==
    LET f == fit_(self, DF) IN
    IF f.err # "" THEN Raise(f.self, f.err)
    ELSE IF col_factor_scores
         THEN LET g == calc_col_factor_scores(f.self, percent, N)
              IN IF g.err # "" THEN Raise(g.self, g.err)
                 ELSE Return(g.self, Scores(g.self.G))
         ELSE LET g == calc_row_factor_scores(f.self, percent, N)
              IN IF g.err # "" THEN Raise(g.self, g.err)
                 ELSE Return(g.self, Scores(g.self.F))

row_scores(self, percent, N) ==
    LET g == calc_row_factor_scores(self, percent, N)
    IN IF g.err # "" THEN Raise(g.self, g.err) ELSE Return(g.self, Scores(g.self.F))

col_scores(self, percent, N) ==
    LET g == calc_col_factor_scores(self, percent, N)
    IN IF g.err # "" THEN Raise(g.self, g.err) ELSE Return(g.self, Scores(g.self.G))

\* ------------------------------------------------------------------ state
\* self: the MCA object.  ret: the call the client made last and what it
\* got back, until the client has taken it (op = "idle").
VARIABLES self, ret, fits
vars == <<self, ret, fits>>

\* call-time arguments
PercentValues == {<<-1, 2>>, <<0, 1>>, <<1, 2>>, PercentDefault, <<1, 1>>, <<3, 2>>}
NValues == {NoneV, FloatV} \cup {IntV(i) : i \in -1..MaxDim}
SliceValues == {NoneV} \cup {IntV(i) : i \in 1..MaxDim}
SupTables == {[n |-> Rows, J |-> J, s |-> <<>>] : J \in Dims}

\* tables the engine's column selection applies to
Fittable(cols) == {DF \in Tables : DF.J >= cols}

Idle == [op |-> "idle", percent |-> PercentDefault, N |-> NoneV, DF |-> NoTable,
         flag |-> FALSE, err |-> "", val |-> NoVal]

Call(op, percent, N, DF, flag, out) ==
    [op |-> op, percent |-> percent, N |-> N, DF |-> DF, flag |-> flag,
     err |-> out.err, val |-> out.val]

Init ==
    /\ self \in {New(cfg) : cfg \in Configs}
    /\ ret = Idle
    /\ fits = 0

Do(op, percent, N, DF, flag, out) ==
    /\ self' = out.self
    /\ ret' = Call(op, percent, N, DF, flag, out)
    /\ fits' = IF op \in {"fit", "fit_transform"} THEN fits + 1 ELSE fits

Fit ==
    /\ ret = Idle
    /\ fits < MaxFits
    /\ \E DF \in Fittable(self.cols) :
        Do("fit", PercentDefault, NoneV, DF, FALSE, fit(self, DF))

FitTransform ==
    /\ ret = Idle
    /\ fits < MaxFits
    /\ \E DF \in Fittable(self.cols), percent \in PercentValues, N \in NValues,
       col \in BOOLEAN :
        Do("fit_transform", percent, N, DF, col,
           fit_transform(self, DF, percent, N, col))

CalcRow ==
    /\ ret = Idle
    /\ \E percent \in PercentValues, N \in NValues :
        Do("calc_row", percent, N, NoTable, FALSE, row_scores(self, percent, N))

CalcCol ==
    /\ ret = Idle
    /\ \E percent \in PercentValues, N \in NValues :
        Do("calc_col", percent, N, NoTable, TRUE, col_scores(self, percent, N))

CosR ==
    /\ ret = Idle
    /\ \E N \in SliceValues :
        Do("cos_r", PercentDefault, N, NoTable, FALSE, cos_r(self, N))

CosC ==
    /\ ret = Idle
    /\ \E N \in SliceValues :
        Do("cos_c", PercentDefault, N, NoTable, TRUE, cos_c(self, N))

ContR ==
    /\ ret = Idle
    /\ \E N \in SliceValues :
        Do("cont_r", PercentDefault, N, NoTable, FALSE, cont_r(self, N))

ContC ==
    /\ ret = Idle
    /\ \E N \in SliceValues :
        Do("cont_c", PercentDefault, N, NoTable, TRUE, cont_c(self, N))

ExplVar ==
    /\ ret = Idle
    /\ \E greenacre \in BOOLEAN, N \in SliceValues :
        Do("expl_var", PercentDefault, N, NoTable, greenacre,
           expl_var(self, greenacre, N))

FsRSup ==
    /\ ret = Idle
    /\ \E DF \in SupTables, N \in NValues :
        Do("fs_r_sup", PercentDefault, N, DF, FALSE, fs_r_sup(self, DF, N))

FsCSup ==
    /\ ret = Idle
    /\ \E DF \in SupTables, N \in NValues :
        Do("fs_c_sup", PercentDefault, N, DF, TRUE, fs_c_sup(self, DF, N))

\* the client takes the returned value (or the exception) and goes on
Taken ==
    /\ ret # Idle
    /\ ret' = Idle
    /\ UNCHANGED <<self, fits>>

Next ==
    \/ Fit
    \/ FitTransform
    \/ CalcRow
    \/ CalcCol
    \/ CosR
    \/ CosC
    \/ ContR
    \/ ContC
    \/ ExplVar
    \/ FsRSup
    \/ FsCSup
    \/ Taken

Spec == Init /\ [][Next]_vars

\* fit alone, on every configuration
FitNext ==
    \/ Fit
    \/ Taken

SpecFit == Init /\ [][FitNext]_vars

\* the first fit of an engine
FitOnce ==
    /\ fits = 0
    /\ Fit

\* one fit and explicit score calculations
ScoreNext ==
    \/ FitOnce
    \/ CalcRow
    \/ CalcCol
    \/ Taken

SpecScore == Init /\ [][ScoreNext]_vars

\* one fit and every call that goes through the row or column score cache
CacheNext ==
    \/ FitOnce
    \/ CalcRow
    \/ CalcCol
    \/ CosR
    \/ CosC
    \/ ContR
    \/ ContC
    \/ Taken

SpecCache == Init /\ [][CacheNext]_vars

\* ----------------------------------------------------------------- claims
Eigenvalues(e) == IF e.benzecri THEN e.E ELSE Squares(e.s)
BelowTol(E, tol) == {i \in 1..Len(E) : RLess(E[i], tol)}
Least(S) == CHOOSE i \in S : \A j \in S : i <= j

\* C1: after every fit, rank is the (0-based) index of the first eigenvalue
\* below tol, index 0 included, and len(E) only when no eigenvalue is below
\* tol; L is E truncated to rank.
C1_RankIsFirstBelowTol ==
    (ret.op = "fit" /\ ret.err = "") =>
        LET E == Eigenvalues(self)
            B == BelowTol(E, self.tol)
        IN /\ self.rank = IF B = {} THEN Len(E) ELSE Least(B) - 1
           /\ self.L = SubSeq(E, 1, self.rank)

\* the fit found an eigenvalue that is not below tol
Informative(e) == Fitted(e) /\ ~RLess(Eigenvalues(e)[1], e.tol)

OutsideUnit(percent) == RLess(percent, <<0, 1>>) \/ RLess(<<1, 1>>, percent)
NotPositiveInteger(N) == N.t # "None" /\ (N.t # "int" \/ N.v <= 0)
ScoreOps == {"calc_row", "calc_col", "fit_transform"}

\* C2: a factor-score calculation raises ValueError whenever percent is
\* outside [0,1] or the N it is given is zero, negative or not an integer,
\* and returns scores only when percent is in [0,1] and N is absent or a
\* positive integer.
C2_BadArgumentsRaise ==
    (ret.op \in ScoreOps /\ Informative(self)) =>
        /\ (OutsideUnit(ret.percent) \/ NotPositiveInteger(ret.N)) => ret.err = "ValueError"
        /\ ret.err = "" => ~OutsideUnit(ret.percent) /\ ~NotPositiveInteger(ret.N)

DiagOps == {"cos_r", "cos_c", "cont_r", "cont_c", "expl_var", "fs_r_sup", "fs_c_sup"}

\* the call recorded in c, made on engine e
Replay(e, c) ==
    CASE c.op = "cos_r" -> cos_r(e, c.N)
      [] c.op = "cos_c" -> cos_c(e, c.N)
      [] c.op = "cont_r" -> cont_r(e, c.N)
      [] c.op = "cont_c" -> cont_c(e, c.N)
      [] c.op = "expl_var" -> expl_var(e, c.flag, c.N)
      [] c.op = "fs_r_sup" -> fs_r_sup(e, c.DF, c.N)
      [] c.op = "fs_c_sup" -> fs_c_sup(e, c.DF, c.N)

\* a second engine with the same options whose only call was the same fit
SameFitOnly(e) ==
    fit_(New([cols |-> e.cols, n_cols |-> e.n_cols, benzecri |-> e.benzecri,
              tol |-> e.tol, sparse |-> e.sparse]), e.P.X).self

\* C3: what a diagnostic or supplementary call returns is determined by the
\* latest fit and the call's arguments: it is what an engine that only made
\* that fit returns for the same call.
C3_DiagnosticsDependOnLatestFitOnly ==
    (ret.op \in DiagOps /\ Informative(self) /\ self.r = self.P.X) =>
        LET other == Replay(SameFitOnly(self), ret)
        IN /\ ret.err = other.err
           /\ ret.err = "" => ret.val = other.val

\* C4: when fs_r_sup (fs_c_sup) computes a projection, the cached G (F) it
\* multiplies by has exactly rank columns.
C4_SupplementaryUsesFullRank ==
    /\ (ret.op = "fs_r_sup" /\ ret.err = "" /\ Informative(self)) =>
            Width(self.G) = self.rank
    /\ (ret.op = "fs_c_sup" /\ ret.err = "" /\ Informative(self)) =>
            Width(self.F) = self.rank

BadColumnCount(n_cols, DF) ==
    n_cols.t # "None" /\ (n_cols.t # "int" \/ n_cols.v <= 0 \/ n_cols.v > DF.J)
FitOps == {"fit", "fit_transform"}

\* C5 as stated: fit raises ValueError whenever n_cols is explicit and not
\* a positive integer or exceeds the table's column count, whether cols is
\* given or not, sparse or dense.
C5_BadColumnCountAlwaysRaises ==
    (ret.op \in FitOps /\ BadColumnCount(self.n_cols, ret.DF)) => ret.err = "ValueError"

\* C5 amended: when cols is not given, fit raises ValueError on such an
\* n_cols before anything is computed: the engine is left as it was.
C5_BadColumnCountRaisesWithoutCols ==
    [][(ret'.op \in FitOps /\ self.cols = 0 /\ BadColumnCount(self.n_cols, ret'.DF))
          => (ret'.err = "ValueError" /\ self' = self)]_vars

C5_Witness ==
    /\ ret.op = "fit" /\ ret.err = "ValueError"
    /\ self.cols = 0 /\ BadColumnCount(self.n_cols, ret.DF)
    /\ Fitted(self) /\ self.r # ret.DF

\* C6: in sparse mode the number of singular triplets is min(shape)-1, or
\* n_cols when it is given, _numitems equals that number, and P has
\* _numitems columns.
C6_ItemCountMatchesTriplets ==
    (self.sparse /\ Fitted(self)) =>
        LET X == self.P.X
            kprime == IF self.n_cols.t = "None" THEN Min(X.n, X.J) - 1 ELSE self.n_cols.v
        IN /\ Len(self.s) = kprime
           /\ self.numitems = kprime
           /\ self.P.cols = self.numitems

Cached(e, op) == IF op = "calc_row" THEN e.F ELSE e.G

\* C7: a score calculation with valid percent and a positive integer N
\* succeeds and returns min(N, rank) columns.
C7_LargeNClamped ==
    (/\ ret.op \in {"calc_row", "calc_col"}
     /\ Informative(self)
     /\ ~OutsideUnit(ret.percent)
     /\ ret.N.t = "int" /\ ret.N.v > 0) =>
        /\ ret.err = ""
        /\ Width(Cached(self, ret.op)) = IF ret.N.v > self.rank THEN self.rank ELSE ret.N.v

\* sum of the first i entries of L reaches percent * sum(L)
PrefixReaches(L, i, percent) ==
    LET total == RSum(L)
        part == RSum(SubSeq(L, 1, i))
    IN part[1] * total[2] * percent[2] >= total[1] * percent[1] * part[2]

\* C8: the k a score calculation caches is the smallest k, counted from 1,
\* whose first k entries of L sum to at least percent * sum(L); 1 <= k <=
\* len(L), percent = 0 gives k = 1, and without N the result has k columns.
C8_KIsSmallestReaching ==
    (/\ ret.op \in {"calc_row", "calc_col"}
     /\ Fitted(self)
     /\ ~OutsideUnit(ret.percent)
     /\ ~NotPositiveInteger(ret.N)) =>
        /\ self.k \in 1..Len(self.L)
        /\ PrefixReaches(self.L, self.k, ret.percent)
        /\ \A j \in 1..(self.k - 1) : ~PrefixReaches(self.L, j, ret.percent)
        /\ ret.percent = <<0, 1>> => self.k = 1
        /\ (ret.N.t = "None" /\ ret.err = "") => Width(Cached(self, ret.op)) = self.k

C8_Witness ==
    /\ ret.op = "calc_col" /\ ret.err = "" /\ ret.N.t = "None"
    /\ ret.percent = PercentDefault
    /\ self.k = 2 /\ Width(self.G) = 2

RowOps == {"calc_row", "cos_r", "cont_r"}
ColOps == {"calc_col", "cos_c", "cont_c"}
Decomposition(e) ==
    <<e.K, e.J, e.r, e.c, e.D_r, e.D_c, e.P, e.s, e.Q, e.numitems,
      e.inertia, e.rank, e.L>>

\* C9: a row-score call never creates or changes the cached G, a
\* column-score call never creates or changes the cached F, and neither
\* changes the fitted decomposition.
C9_CachesIndependent ==
    [][/\ ret'.op \in RowOps =>
            self'.G = self.G /\ Decomposition(self') = Decomposition(self)
       /\ ret'.op \in ColOps =>
            self'.F = self.F /\ Decomposition(self') = Decomposition(self)]_vars

C9_Witness ==
    /\ ret.op = "cos_r" /\ ret.err = ""
    /\ self.F.has /\ Width(self.F) = self.rank
    /\ self.G.has /\ Width(self.G) < self.rank

\* the calls C10 names: a bad column count, a bad percent or N, a bad N
InvalidCall(e, c) ==
    \/ c.op = "fit" /\ BadColumnCount(e.n_cols, c.DF)
    \/ c.op \in {"calc_row", "calc_col"} /\ (OutsideUnit(c.percent) \/ NotPositiveInteger(c.N))
    \/ c.op \in {"fs_r_sup", "fs_c_sup"} /\ NotPositiveInteger(c.N)

\* C10: a call on a fitted engine that ends in an invalid-argument or
\* invalid-configuration error leaves the engine exactly as it was.
C10_ErrorsLeaveStateUnchanged ==
    [][(Informative(self) /\ InvalidCall(self, ret') /\ ret'.err = "ValueError")
          => self' = self]_vars
====
